---- MODULE Spec2Model ----
(***************************************************************************)
(* Study execution pipeline of the Echo consumer-research platform:        *)
(* task ordering (components/tasks.py), participant lifecycle              *)
(* (components/participants.py), response ingestion and the AI service     *)
(* (services/ai_service.py), as listed in LEARNING_GUIDE_PHASE2.md.        *)
(*                                                                         *)
(* Every handler is an HTTP request served concurrently with the others.   *)
(* A handler is split at its calls into the database (db.create, db.read,  *)
(* db.update, each its own session and commit) and into the inference      *)
(* provider; a worker w carries one request in flight in call[w].          *)
(***************************************************************************)
EXTENDS Integers, Sequences, FiniteSets, TLC

\* ---------------------------------------------------------------- bounds
MaxTasks == 3
MaxIds == 2
MaxExplicit == 1
MaxWorkers == 2
MaxParticipants == 2
MaxClock == 2
MaxDuplicates == 1
MaxExternalCalls == 3
MaxStudyTasks == 2
MaxRespondents == 1
MaxRacers == 1
MaxContacts == 2
MaxIndex == 3
MaxFormTasks == 2
MaxFetches == 4

Studies == {"s1", "s2"}
TaskIds == 1..MaxTasks
Workers == 1..MaxWorkers
ParticipantIds == 1..MaxParticipants
\* the order_index values a caller of /tasks/create passes explicitly
ExplicitIndexes == 0..MaxExplicit
\* the task_ids lists a caller of /tasks/reorder passes
IdLists == UNION {[1..n -> TaskIds] : n \in 0..MaxIds}

Statuses == {"invited", "started", "completed", "dropped"}

Payloads == {"a", "b"}

VARIABLES tasks, call, participants, clock, responses, openai_key, external_calls,
          anthropic_key, analysis_calls, studies, api, page, sent

vars == <<tasks, call, participants, clock, responses, openai_key, external_calls,
          anthropic_key, analysis_calls, studies, api, page, sent>>

\* what the handlers of each component leave alone
aiState == <<openai_key, external_calls, anthropic_key, analysis_calls>>
\* the browser side: the accessAPI call in flight, the create-study page,
\* the fetches issued so far
clientState == <<api, page, sent>>
taskFrame == <<participants, clock, responses, aiState, studies, clientState>>
participantFrame == <<tasks, call, responses, aiState, studies, clientState>>
responseFrame == <<tasks, clock, aiState, studies, clientState>>
aiFrame == <<tasks, participants, clock, responses, openai_key, anthropic_key, studies, clientState>>

Idle == [op |-> "idle"]

\* ------------------------------------------------------------ repository
\* rows of `table` matching an exact-match conjunction on study_id
db_read_tasks(table, study) == {id \in DOMAIN table : table[id].study_id = study}

\* the id a new row gets (uuid4 in the route: an id no row has)
FreshId(table) == CHOOSE id \in TaskIds \ DOMAIN table : \A o \in TaskIds \ DOMAIN table : id <= o

db_update_matches_id(table, id, study) == id \in DOMAIN table

\* db.update(table='tasks', query={'id','study_id'}, data={'order_index'}) hits a row
db_update_matches(table, id, study) == id \in DOMAIN table /\ table[id].study_id = study

db_update_order(table, id, index) == [table EXCEPT ![id].order_index = index]

\* db.update(table, query, data): every key of data is written to the row
db_update_row(row, data) == [k \in DOMAIN row |-> IF k \in DOMAIN data THEN data[k] ELSE row[k]]

\* rows of the tasks table in an order the database may return them in (no
\* ORDER BY): every arrangement of the matching rows
db_read_rows(table, study) ==
    LET ids == db_read_tasks(table, study)
        n == Cardinality(ids)
    IN {l \in [1..n -> ids] : \A i, j \in 1..n : i # j => l[i] # l[j]}

references_anything(study) == TRUE

\* tasks.study_id REFERENCES studies(id) NOT NULL: an insert naming a study
\* that has no row is refused by the database
references_study(study) == study \in DOMAIN studies

\* rows of the responses table for one (participant, task) pair
RowsFor(table, p, t) == table[<<p, t>>]

\* db.delete(table, query={'id': id})
db_delete(table, id) == [i \in DOMAIN table \ {id} |-> table[i]]

on_delete_no_action(table, column, gone) == table

\* column REFERENCES parent(id) ON DELETE CASCADE: the rows whose column
\* names a deleted parent row go with it
on_delete_cascade(table, column, gone) ==
    [id \in {i \in DOMAIN table : table[i][column] \notin gone} |-> table[id]]

\* the same for the two references of the responses table
cascade_responses(table, gone_participants, gone_tasks) ==
    [key \in DOMAIN table |->
        IF key[1] \in gone_participants \/ key[2] \in gone_tasks THEN <<>> ELSE table[key]]

\* ----------------------------------------------------------- studies.py
StudyStatuses == {"draft", "active", "completed", "archived"}

studyFrame == <<call, clock, aiState, clientState>>

\* update_study(study_id, data): data is required, then db.update
update_study(study, data) ==
    /\ studies' = IF data = <<>> \/ study \notin DOMAIN studies
                  THEN studies
                  ELSE [studies EXCEPT ![study] = db_update_row(@, data)]
    /\ UNCHANGED <<tasks, participants, responses>>
    /\ UNCHANGED studyFrame

\* delete_study(study_id): db.delete; the tasks and participants of the
\* study, and the responses of those, are deleted by the cascade
delete_study(study) ==
    /\ study \in DOMAIN studies
    /\ studies' = db_delete(studies, study)
    /\ tasks' = on_delete_cascade(tasks, "study_id", {study})
    /\ participants' = on_delete_cascade(participants, "study_id", {study})
    /\ responses' = cascade_responses(responses,
                                      DOMAIN participants \ DOMAIN participants',
                                      DOMAIN tasks \ DOMAIN tasks')
    /\ UNCHANGED studyFrame

\* ------------------------------------------------------------- tasks.py
SetMax(S) == CHOOSE m \in S : \A x \in S : x <= m

MaxOrderIndex(table, study) == SetMax({table[id].order_index : id \in db_read_tasks(table, study)} \cup {0})

\* max([t.get('order_index', 0) for t in existing_tasks] + [0]) + 1
NextOrderIndex(table, study) == SetMax({table[id].order_index : id \in db_read_tasks(table, study)} \cup {0}) + 1

\* the closed list create_task and update_task check a type against
valid_types == {"camera", "discussion", "gallery", "collage", "classification", "fill_blanks"}

accepts_any_type(type) == TRUE

valid_type(type) == type \in valid_types

\* list.sort(key=order_index) is stable: x goes behind the rows of smaller
\* order_index and in front of the rows of equal or larger order_index that
\* came after it
InsertByOrderIndex(table, x, l) ==
    LET n == Cardinality({i \in 1..Len(l) : table[l[i]].order_index < table[x].order_index})
    IN SubSeq(l, 1, n) \o <<x>> \o SubSeq(l, n + 1, Len(l))

RECURSIVE SortByOrderIndex(_, _)
SortByOrderIndex(table, l) ==
    IF l = <<>> THEN <<>>
    ELSE InsertByOrderIndex(table, Head(l), SortByOrderIndex(table, Tail(l)))

as_read(table, l) == l

\* tasks.sort(key=lambda x: x.get('order_index', 0))
sort_tasks(table, l) == SortByOrderIndex(table, l)

\* read_tasks(query={'study_id': s}): db.read, then the sort by order_index;
\* rows of equal order_index stay in the order the database returned them
read_tasks(table, study) == {sort_tasks(table, l) : l \in db_read_rows(table, study)}

AllIdle == \A w \in Workers : call[w].op = "idle"

\* the types a caller passes: left out, two of the list, one outside it
RequestTypes == {"", "camera", "discussion", "video"}

\* the task a caller of /tasks/create posts (a title is always given)
NewTask(study, type) == [study_id |-> study, type |-> type]

NewTaskAt(study, type, index) == [study_id |-> study, type |-> type, order_index |-> index]

\* create_task, up to its first database call: study_id and type are
\* required, the type is checked, order_index is read only when left out
BeginCreateTask(w, task) ==
    /\ call[w].op = "idle"
    /\ Cardinality(DOMAIN tasks) < MaxTasks
    /\ call' = [call EXCEPT ![w] =
          IF task.study_id = "" \/ task.type = "" \/ ~valid_type(task.type)
          THEN [op |-> "create_task", pc |-> "done", result |-> "raised",
                study_id |-> task.study_id, type |-> task.type]
          ELSE [op |-> "create_task",
                pc |-> IF "order_index" \in DOMAIN task THEN "insert" ELSE "read",
                study_id |-> task.study_id, type |-> task.type,
                explicit |-> "order_index" \in DOMAIN task,
                order_index |-> IF "order_index" \in DOMAIN task THEN task.order_index ELSE 0,
                task_id |-> 0, result |-> "pending"]]
    /\ UNCHANGED tasks
    /\ UNCHANGED taskFrame

\* existing_tasks = db.read(...); task['order_index'] = max_order + 1
CreateTaskRead(w) ==
    /\ call[w].op = "create_task" /\ call[w].pc = "read"
    /\ call' = [call EXCEPT ![w].order_index = NextOrderIndex(tasks, call[w].study_id),
                            ![w].pc = "insert"]
    /\ UNCHANGED tasks
    /\ UNCHANGED taskFrame

\* task_id = db.create(table='tasks', data=task)
CreateTaskInsert(w) ==
    /\ call[w].op = "create_task" /\ call[w].pc = "insert"
    /\ Cardinality(DOMAIN tasks) < MaxTasks
    /\ references_study(call[w].study_id)
    /\ tasks' = tasks @@ (FreshId(tasks) :> [study_id |-> call[w].study_id,
                                             type |-> call[w].type,
                                             order_index |-> call[w].order_index])
    /\ call' = [call EXCEPT ![w].pc = "done", ![w].result = "ok", ![w].task_id = FreshId(tasks)]
    /\ UNCHANGED taskFrame

\* the insert breaks the foreign key on study_id: db.create raises,
\* handle_exception re-raises, no row is written
CreateTaskInsertRaise(w) ==
    /\ call[w].op = "create_task" /\ call[w].pc = "insert"
    /\ ~references_study(call[w].study_id)
    /\ call' = [call EXCEPT ![w].pc = "done", ![w].result = "raised"]
    /\ UNCHANGED tasks
    /\ UNCHANGED taskFrame

\* the data a caller of /tasks/update posts
TaskUpdates == {<<>>} \cup {[type |-> ty] : ty \in RequestTypes}

\* update_task(task_id, data): data is required, a type in it is checked,
\* then db.update(query={'id': task_id}, data); no row with the id raises
update_task(w, id, data) ==
    /\ call[w].op = "idle"
    /\ LET ok == /\ data # <<>>
                 /\ "type" \in DOMAIN data => valid_type(data.type)
                 /\ id \in DOMAIN tasks
       IN /\ tasks' = IF ok THEN [tasks EXCEPT ![id] = db_update_row(@, data)] ELSE tasks
          /\ call' = [call EXCEPT ![w] =
                        [op |-> "update_task", pc |-> "done", task_id |-> id, data |-> data,
                         result |-> IF ok THEN "ok" ELSE "raised"]]
    /\ UNCHANGED taskFrame

delete_and_renumber(table, id) ==
    [i \in DOMAIN table \ {id} |->
        IF table[i].study_id = table[id].study_id /\ table[i].order_index > table[id].order_index
        THEN [table[i] EXCEPT !.order_index = @ - 1]
        ELSE table[i]]

\* db.delete(table='tasks', query={'id': task_id}): the one row goes, no
\* other row is written
delete_task_row(table, id) == db_delete(table, id)

\* delete_task(task_id): db.delete; no row with the id raises; the
\* responses to the task are deleted by the cascade
delete_task(w, id) ==
    /\ call[w].op = "idle"
    /\ tasks' = IF id \in DOMAIN tasks THEN delete_task_row(tasks, id) ELSE tasks
    /\ responses' = cascade_responses(responses, {}, DOMAIN tasks \ DOMAIN tasks')
    /\ call' = [call EXCEPT ![w] =
                  [op |-> "delete_task", pc |-> "done", task_id |-> id, before |-> tasks,
                   answers |-> {p \in ParticipantIds : RowsFor(responses, p, id) # <<>>},
                   result |-> IF id \in DOMAIN tasks THEN "ok" ELSE "raised"]]
    /\ UNCHANGED <<participants, clock, aiState, studies, clientState>>

\* GET /tasks/read?study_id=s: read_tasks(query={'study_id': s})
ReadTasks(w, study) ==
    /\ call[w].op = "idle"
    /\ \E l \in read_tasks(tasks, study) :
          call' = [call EXCEPT ![w] =
                     [op |-> "read_tasks", pc |-> "done", result |-> "ok",
                      study_id |-> study, rows |-> l]]
    /\ UNCHANGED tasks
    /\ UNCHANGED taskFrame

\* reorder_tasks, up to its first database call
BeginReorder(w, study, ids) ==
    /\ call[w].op = "idle"
    /\ call' = [call EXCEPT ![w] =
                  [op |-> "reorder", study_id |-> study, task_ids |-> ids, k |-> 1,
                   pc |-> IF ids = <<>> THEN "done" ELSE "update",
                   result |-> IF ids = <<>> THEN "raised" ELSE "pending",
                   before |-> tasks]]
    /\ UNCHANGED tasks
    /\ UNCHANGED taskFrame

reorder_index_from_zero(k) == k - 1

\* for index, task_id in enumerate(task_ids, start=1): the k-th id of the
\* list gets order_index k
reorder_index(k) == k

ReorderAdvance(w) ==
    IF call[w].k = Len(call[w].task_ids)
    THEN [call EXCEPT ![w].pc = "done", ![w].result = "ok"]
    ELSE [call EXCEPT ![w].k = @ + 1]

\* one iteration of the loop: db.update(query={'id','study_id'}, data={'order_index': index})
ReorderUpdate(w) ==
    /\ call[w].op = "reorder" /\ call[w].pc = "update"
    /\ db_update_matches(tasks, call[w].task_ids[call[w].k], call[w].study_id)
    /\ tasks' = db_update_order(tasks, call[w].task_ids[call[w].k], reorder_index(call[w].k))
    /\ call' = ReorderAdvance(w)
    /\ UNCHANGED taskFrame

\* the update matches no row: the repository has no affected id to return
\* and raises, handle_exception re-raises, the updates already committed stay
ReorderUpdateRaise(w) ==
    /\ call[w].op = "reorder" /\ call[w].pc = "update"
    /\ ~db_update_matches(tasks, call[w].task_ids[call[w].k], call[w].study_id)
    /\ call' = [call EXCEPT ![w].pc = "done", ![w].result = "raised"]
    /\ UNCHANGED tasks
    /\ UNCHANGED taskFrame

\* the server process dies between two database calls of a reorder
ReorderCrash(w) ==
    /\ call[w].op = "reorder" /\ call[w].pc = "update" /\ call[w].k > 1
    /\ call' = [call EXCEPT ![w].pc = "done", ![w].result = "crashed"]
    /\ UNCHANGED tasks
    /\ UNCHANGED taskFrame

\* the response has been sent; the worker takes the next request
Return(w) ==
    /\ call[w].op # "idle" /\ call[w].pc = "done"
    /\ call' = [call EXCEPT ![w] = Idle]
    /\ UNCHANGED tasks
    /\ UNCHANGED taskFrame

\* ------------------------------------------------------ participants.py
\* a timestamp column that holds NULL
Null == 0

FreshParticipantId(table) ==
    CHOOSE id \in ParticipantIds \ DOMAIN table : \A o \in ParticipantIds \ DOMAIN table : id <= o

\* create_participant: study_id and contact are required; status and
\* invited_at get their defaults only when the caller left them out; the
\* insert is refused when study_id references no study
create_participant(study, contact, given) ==
    /\ Cardinality(DOMAIN participants) < MaxParticipants
    /\ IF contact = "" \/ ~references_study(study)
       THEN UNCHANGED participants
       ELSE participants' = participants @@
              (FreshParticipantId(participants) :>
                 [study_id |-> study, contact |-> contact,
                  status |-> IF "status" \in DOMAIN given THEN given.status ELSE "invited",
                  invited_at |-> IF "invited_at" \in DOMAIN given THEN given.invited_at ELSE clock,
                  started_at |-> Null, completed_at |-> Null])
    /\ UNCHANGED clock
    /\ UNCHANGED participantFrame

\* delete_participant(participant_id): db.delete; the responses of the
\* participant are deleted by the cascade
delete_participant(id) ==
    /\ id \in DOMAIN participants
    /\ participants' = db_delete(participants, id)
    /\ responses' = cascade_responses(responses, {id}, {})
    /\ UNCHANGED <<tasks, call, clock, aiState, studies, clientState>>

UnstampedData(data, now) == data

\* the data update_participant hands to db.update: a started_at or
\* completed_at is added when the status asks for it and the caller gave none
StampedData(data, now) ==
    IF "status" \in DOMAIN data /\ data.status = "started" /\ "started_at" \notin DOMAIN data
    THEN data @@ [started_at |-> now]
    ELSE IF "status" \in DOMAIN data /\ data.status = "completed" /\ "completed_at" \notin DOMAIN data
         THEN data @@ [completed_at |-> now]
         ELSE data

\* update_participant(participant_id, data); an empty data, or an id that
\* matches no row, raises and changes nothing
update_participant(table, id, data, now) ==
    IF data = <<>> \/ id \notin DOMAIN table
    THEN table
    ELSE [table EXCEPT ![id] = db_update_row(table[id], StampedData(data, now))]

UpdateParticipant(id, data) ==
    /\ participants' = update_participant(participants, id, data, clock)
    /\ UNCHANGED clock
    /\ UNCHANGED participantFrame

\* a contact that is JSON null
None == "None"

\* the contacts lists a caller of /participants/bulk-create passes
ContactLists == UNION {[1..n -> {"a@x.io", "", None}] : n \in 0..MaxContacts}

bulkFrame == <<tasks, clock, responses, aiState, studies, clientState>>

\* bulk_create_participants, up to its first database call: study_id and a
\* non-empty contacts list are required
BeginBulkCreate(w, study, contacts) ==
    /\ call[w].op = "idle"
    /\ call' = [call EXCEPT ![w] =
          [op |-> "bulk_create", study_id |-> study, contacts |-> contacts,
           pc |-> IF study = "" \/ contacts = <<>> THEN "done" ELSE "create",
           result |-> IF study = "" \/ contacts = <<>> THEN "raised" ELSE "pending",
           k |-> 1, created_count |-> 0, total_requested |-> 0,
           current_time |-> clock, before |-> participants]]
    /\ UNCHANGED participants
    /\ UNCHANGED bulkFrame

\* the loop moves on to the next contact, or returns the two counts
bulk_next(c) ==
    IF c.k = Len(c.contacts)
    THEN [c EXCEPT !.pc = "done", !.result = "ok", !.total_requested = Len(c.contacts)]
    ELSE [c EXCEPT !.k = @ + 1]

bulk_abort(c) == [c EXCEPT !.pc = "done", !.result = "raised"]

\* except Exception as e: logger.error(...), and on with the loop
bulk_after_failure(c) == bulk_next(c)

\* participants.contact is NOT NULL and study_id REFERENCES studies(id)
db_accepts_participant(study, contact) == contact # None /\ references_study(study)

\* one iteration of the loop whose db.create succeeds
BulkCreate(w) ==
    /\ call[w].op = "bulk_create" /\ call[w].pc = "create"
    /\ Cardinality(DOMAIN participants) < MaxParticipants
    /\ db_accepts_participant(call[w].study_id, call[w].contacts[call[w].k])
    /\ participants' = participants @@
          (FreshParticipantId(participants) :>
             [study_id |-> call[w].study_id, contact |-> call[w].contacts[call[w].k],
              status |-> "invited", invited_at |-> call[w].current_time,
              started_at |-> Null, completed_at |-> Null])
    /\ call' = [call EXCEPT ![w] = bulk_next([@ EXCEPT !.created_count = @ + 1])]
    /\ UNCHANGED bulkFrame

\* one iteration of the loop whose db.create raises
BulkCreateFail(w) ==
    /\ call[w].op = "bulk_create" /\ call[w].pc = "create"
    /\ ~db_accepts_participant(call[w].study_id, call[w].contacts[call[w].k])
    /\ call' = [call EXCEPT ![w] = bulk_after_failure(@)]
    /\ UNCHANGED participants
    /\ UNCHANGED bulkFrame

\* datetime.now() moves on to the next second
Tick ==
    /\ clock < MaxClock
    /\ clock' = clock + 1
    /\ UNCHANGED participants
    /\ UNCHANGED participantFrame

\* the status a caller of /participants/create may pass along
GivenStatus == {<<>>} \cup {[status |-> st] : st \in Statuses}

\* the optional fields a caller of /participants/create may pass along
GivenFields == {a @@ b : a \in GivenStatus, b \in {<<>>, [invited_at |-> Null]}}

\* the data a caller of /participants/update passes: any subset of the keys
UpdateData ==
    {a @@ b @@ c : a \in GivenStatus,
                   b \in {<<>>, [started_at |-> Null]},
                   c \in {<<>>, [completed_at |-> Null]}}

\* --------------------------------------------- ResponseIngestor.submit
\* The responses table, grouped by its (participant_id, task_id) columns:
\* responses[<<p, t>>] is the response_data of the rows stored for the
\* pair, oldest first (the row ids play no part in any handler).

\* the tasks a participant has a stored response for
Answered(table, p) == {t \in TaskIds : table[<<p, t>>] # <<>>}

\* a submission replaces the response stored for the pair (the rows in
\* existing), or inserts one when there is none
upsert_always_insert(table, existing, p, t, payload) ==
    [table EXCEPT ![<<p, t>>] = Append(@, payload)]

upsert(table, existing, p, t, payload) ==
    IF existing # <<>>
    THEN [table EXCEPT ![<<p, t>>] = [i \in 1..Len(@) |-> payload]]
    ELSE [table EXCEPT ![<<p, t>>] = Append(@, payload)]

study_accepts_any(status) == TRUE

\* only a study that is active takes submissions
study_accepts(status) == status = "active"

\* submit, up to its write: an unknown participant or task is NotFound, a
\* study that is not active or a participant who has completed the study
\* is InvalidState
BeginSubmit(w, p, t, payload) ==
    /\ call[w].op = "idle"
    /\ call' = [call EXCEPT ![w] =
          IF \/ p \notin DOMAIN participants \/ t \notin DOMAIN tasks
             \/ participants[p].study_id \notin DOMAIN studies
          THEN [op |-> "submit", pc |-> "done", result |-> "NotFound"]
          ELSE IF \/ ~study_accepts(studies[participants[p].study_id].status)
                  \/ participants[p].status = "completed"
          THEN [op |-> "submit", pc |-> "done", result |-> "InvalidState",
                participant_id |-> p, task_id |-> t]
          ELSE [op |-> "submit", pc |-> "upsert", result |-> "pending",
                participant_id |-> p, task_id |-> t, payload |-> payload,
                prior |-> [status |-> participants[p].status,
                           started_at |-> participants[p].started_at,
                           answered |-> Answered(responses, p),
                           rows |-> RowsFor(responses, p, t)],
                first |-> FALSE, last |-> FALSE]]
    /\ UNCHANGED <<participants, responses>>
    /\ UNCHANGED responseFrame

SubmitAfterUpsert(w, first, last) ==
    [call EXCEPT ![w].first = first, ![w].last = last,
                 ![w].pc = IF first THEN "started" ELSE IF last THEN "completed" ELSE "done",
                 ![w].result = IF first \/ last THEN "pending" ELSE "ok"]

\* the rows the write finds for its key: looked up in the same atomic unit
\* as the write itself
ExistingRowsAtBegin(w) == call[w].prior.rows

ExistingRows(w) == RowsFor(responses, call[w].participant_id, call[w].task_id)

\* the write, atomic for the (participant, task) key; it also finds out
\* whether this is the participant's first submission and whether it
\* answers the last task of the study that had no response yet
SubmitUpsert(w) ==
    /\ call[w].op = "submit" /\ call[w].pc = "upsert"
    /\ Len(ExistingRows(w)) <= MaxDuplicates
    /\ responses' = upsert(responses, ExistingRows(w),
                           call[w].participant_id, call[w].task_id, call[w].payload)
    /\ call' = SubmitAfterUpsert(w,
          Answered(responses, call[w].participant_id) = {},
          /\ RowsFor(responses, call[w].participant_id, call[w].task_id) = <<>>
          /\ db_read_tasks(tasks, participants[call[w].participant_id].study_id)
                \subseteq Answered(responses', call[w].participant_id))
    /\ UNCHANGED participants
    /\ UNCHANGED responseFrame

\* side effect of a first submission: transition(participant, started)
SubmitStarted(w) ==
    /\ call[w].op = "submit" /\ call[w].pc = "started"
    /\ participants' = update_participant(participants, call[w].participant_id,
                                           [status |-> "started"], clock)
    /\ call' = [call EXCEPT ![w].pc = IF call[w].last THEN "completed" ELSE "done",
                            ![w].result = IF call[w].last THEN "pending" ELSE "ok"]
    /\ UNCHANGED responses
    /\ UNCHANGED responseFrame

\* side effect of the last remaining task: transition(participant, completed)
SubmitCompleted(w) ==
    /\ call[w].op = "submit" /\ call[w].pc = "completed"
    /\ participants' = update_participant(participants, call[w].participant_id,
                                           [status |-> "completed"], clock)
    /\ call' = [call EXCEPT ![w].pc = "done", ![w].result = "ok"]
    /\ UNCHANGED responses
    /\ UNCHANGED responseFrame

\* -------------------------------------------------------- ai_service.py
\* what the provider answers: a synthesis document, or a failure
Syntheses == {"r1", "r2"}

\* the per-response analysis the provider answers
Analyses == {"m1", "m2"}

\* the text a caller of /ai/analyze-text posts ("" when it is left out)
Texts == {"", "t1", "t2"}

\* the study_data a caller of /ai/synthesize-study posts: nothing, or the
\* study with the responses of its completed participants
StudyData == {<<>>, [completed |-> 0], [completed |-> 1]}

\* what the provider call, or the parse of its answer, raises
Failures == {"Timeout", "ServerError", "AuthError", "MalformedOutput"}

TransientFailures == {"Timeout", "ServerError"}

client_always(key) == TRUE

\* self.openai_client / self.anthropic_client: None without an API key
client_configured(key) == key

\* the /ai/synthesize-study route and synthesize_study_insights up to the
\* provider call: study_data is required, and so is the OpenAI client
BeginSynthesize(w, study, study_data) ==
    /\ call[w].op = "idle"
    /\ call' = [call EXCEPT ![w] =
          [op |-> "synthesize", study_id |-> study, issued |-> FALSE, value |-> "none",
           completed |-> IF study_data = <<>> THEN 0 ELSE study_data.completed,
           pc |-> IF study_data # <<>> /\ client_configured(openai_key) THEN "request" ELSE "done",
           result |-> IF study_data # <<>> /\ client_configured(openai_key)
                      THEN "pending" ELSE "raised",
           failure |-> IF study_data = <<>> THEN "Required"
                       ELSE IF client_configured(openai_key) THEN "none" ELSE "NotConfigured",
           overlap |-> {v \in Workers \ {w} :
                          /\ call[v].op = "synthesize"
                          /\ call[v].study_id = study /\ call[v].pc # "done"}]]
    /\ UNCHANGED <<external_calls, analysis_calls>>
    /\ UNCHANGED aiFrame

\* self.openai_client.chat.completions.create(...) goes out
SynthesizeRequest(w) ==
    /\ call[w].op = "synthesize" /\ call[w].pc = "request"
    /\ external_calls < MaxExternalCalls
    /\ external_calls' = external_calls + 1
    /\ call' = [call EXCEPT ![w].pc = "response", ![w].issued = TRUE]
    /\ UNCHANGED analysis_calls
    /\ UNCHANGED aiFrame

\* the provider answers and json.loads parses the document
SynthesizeResponse(w, r) ==
    /\ call[w].op = "synthesize" /\ call[w].pc = "response"
    /\ call' = [call EXCEPT ![w].pc = "done", ![w].result = "ok", ![w].value = r]
    /\ UNCHANGED <<external_calls, analysis_calls>>
    /\ UNCHANGED aiFrame

\* the provider call or the parse raises: logged and re-raised as
\* Exception("Study synthesis failed: ...")
SynthesizeFail(w, f) ==
    /\ call[w].op = "synthesize" /\ call[w].pc = "response"
    /\ call' = [call EXCEPT ![w].pc = "done", ![w].result = "raised", ![w].failure = f]
    /\ UNCHANGED <<external_calls, analysis_calls>>
    /\ UNCHANGED aiFrame

\* the /ai/analyze-text route and analyze_text_response up to the provider
\* call: text is required, and so is the Anthropic client
BeginAnalyze(w, text) ==
    /\ call[w].op = "idle"
    /\ call' = [call EXCEPT ![w] =
          [op |-> "analyze", text |-> text, issued |-> FALSE, value |-> "none",
           pc |-> IF text # "" /\ client_configured(anthropic_key) THEN "request" ELSE "done",
           result |-> IF text # "" /\ client_configured(anthropic_key)
                      THEN "pending" ELSE "raised",
           failure |-> IF text = "" THEN "Required"
                       ELSE IF client_configured(anthropic_key) THEN "none"
                       ELSE "NotConfigured"]]
    /\ UNCHANGED <<external_calls, analysis_calls>>
    /\ UNCHANGED aiFrame

\* self.anthropic_client.messages.create(...) goes out
AnalyzeRequest(w) ==
    /\ call[w].op = "analyze" /\ call[w].pc = "request"
    /\ analysis_calls[call[w].text] < MaxExternalCalls
    /\ analysis_calls' = [analysis_calls EXCEPT ![call[w].text] = @ + 1]
    /\ call' = [call EXCEPT ![w].pc = "response", ![w].issued = TRUE]
    /\ UNCHANGED external_calls
    /\ UNCHANGED aiFrame

\* the provider answers; the JSON is cut out of the text and parsed
AnalyzeResponse(w, r) ==
    /\ call[w].op = "analyze" /\ call[w].pc = "response"
    /\ call' = [call EXCEPT ![w].pc = "done", ![w].result = "ok", ![w].value = r]
    /\ UNCHANGED <<external_calls, analysis_calls>>
    /\ UNCHANGED aiFrame

\* the provider call or the parse raises: re-raised as
\* Exception("Text analysis failed: ...")
AnalyzeFail(w, f) ==
    /\ call[w].op = "analyze" /\ call[w].pc = "response"
    /\ call' = [call EXCEPT ![w].pc = "done", ![w].result = "raised", ![w].failure = f]
    /\ UNCHANGED <<external_calls, analysis_calls>>
    /\ UNCHANGED aiFrame

\* ------------------------------------------------- frontend: utils/api.ts
\* what the browser side leaves alone
clientFrame == <<tasks, call, participants, clock, responses, aiState, studies>>

\* the statuses getToken, GetData and PostData turn into an Error
ErrorStatuses == {400, 401, 403, 404, 500}

\* the statuses the API answers with
HttpStatuses == {200, 401, 503}

\* the access_token of a /token answer ("" when the body has none)
Tokens == {"", "tk1", "tk2"}

token_always_taken(status, token) == FALSE

\* getToken throws on an error status and on a body without access_token
token_refused(status, token) == status \in ErrorStatuses \/ token = ""

\* a fetch, as the API sees it
Fetch(url, method, token, params) ==
    [url |-> url, method |-> method, token |-> token, params |-> params]

\* the state of accessAPI once getToken has issued its fetch
AwaitingToken(url, type, params) ==
    [pc |-> "token", url |-> url, type |-> type, params |-> params,
     token_status |-> 0, token |-> "", fetches |-> 1, body |-> ""]

\* accessAPI(url, type, params) up to its first await: the POST to /token
accessAPI(url, type, params) ==
    /\ api' = AwaitingToken(url, type, params)
    /\ sent' = Append(sent, Fetch("/token", "POST", "", <<>>))

\* a caller other than the create page calls accessAPI
AccessAPI(url, type, params) ==
    /\ api.pc = "idle"
    /\ accessAPI(url, type, params)
    /\ UNCHANGED page
    /\ UNCHANGED clientFrame

\* /token answers: getToken throws, or returns the token and GetData or
\* PostData issues the data request with it
TokenResponse(status, token) ==
    /\ api.pc = "token"
    /\ IF token_refused(status, token)
       THEN /\ api' = [api EXCEPT !.pc = "threw", !.token_status = status, !.token = token]
            /\ UNCHANGED sent
       ELSE /\ api' = [api EXCEPT !.pc = "data", !.token_status = status, !.token = token,
                                  !.fetches = @ + 1]
            /\ sent' = Append(sent, Fetch(api.url, IF api.type = "GET" THEN "GET" ELSE "POST",
                                          token, api.params))
    /\ UNCHANGED page
    /\ UNCHANGED clientFrame

\* the data request is answered: an error status throws, anything else is
\* returned as the parsed body
DataResponse(status, body) ==
    /\ api.pc = "data"
    /\ api' = [api EXCEPT !.pc = IF status \in ErrorStatuses THEN "threw" ELSE "returned",
                          !.body = body]
    /\ UNCHANGED <<page, sent>>
    /\ UNCHANGED clientFrame

\* the caller has the result (or the Error) of accessAPI
ApiDone ==
    /\ api.pc \in {"returned", "threw"}
    /\ api' = [pc |-> "idle"]
    /\ UNCHANGED <<page, sent>>
    /\ UNCHANGED clientFrame

\* --------------------------------- frontend: app/studies/create/page.tsx
\* the taskTypeId values of the form's tasks (9 has no entry in typeMap)
TaskTypeIds == {1, 3, 9}

\* the task lists a form can hold
Forms == UNION {[1..n -> TaskTypeIds] : n \in 0..MaxFormTasks}

typeMap ==
    (1 :> "camera") @@ (2 :> "discussion") @@ (3 :> "gallery") @@ (4 :> "collage")
    @@ (5 :> "classification") @@ (6 :> "fill_blanks")

\* typeMap[id] || 'discussion'
getTaskTypeFromId(id) == IF id \in DOMAIN typeMap THEN typeMap[id] ELSE "discussion"

\* the study data handleSubmit posts
NewStudy == [status |-> "draft"]

\* the ids uuid.uuid4() can give a new study
StudyUuids == {"s3"}

createTaskDataIndexed(studyId, type) == NewTaskAt(studyId, type, 1)

\* the object handleSubmit passes to createTask: study_id, type, title and
\* instructions, no order_index
createTaskData(studyId, type) == NewTask(studyId, type)

task_request_reversed(p, k) ==
    createTaskData(p.studyId, getTaskTypeFromId(p.tasks[Len(p.tasks) + 1 - k]))

\* the createTask of the k-th turn of "for (const task of tasks)"
task_request(p, k) == createTaskData(p.studyId, getTaskTypeFromId(p.tasks[k]))

\* handleSubmit with organizationId and userId set, up to the first await
\* of createStudy
HandleSubmit(form) ==
    /\ page.pc = "form" /\ api.pc = "idle"
    /\ page' = [pc |-> "study", tasks |-> form, studyId |-> "", k |-> 0]
    /\ accessAPI("/studies/create", "POST", NewStudy)
    /\ UNCHANGED clientFrame

\* the loop over the form's tasks: the next createTask, or the toast and
\* router.push once the list is done
NextTask(p) ==
    IF p.k < Len(p.tasks)
    THEN /\ page' = [p EXCEPT !.pc = "task", !.k = p.k + 1]
         /\ accessAPI("/tasks/create", "POST", task_request(p, p.k + 1))
    ELSE /\ page' = [p EXCEPT !.pc = "created"]
         /\ api' = [pc |-> "idle"]
         /\ UNCHANGED sent

\* createStudy returned: studyId = studyResult.id, then the loop starts
AfterCreateStudy ==
    /\ page.pc = "study" /\ api.pc = "returned"
    /\ NextTask([page EXCEPT !.studyId = api.body])
    /\ UNCHANGED clientFrame

\* a createTask returned: the loop goes on
AfterCreateTask ==
    /\ page.pc = "task" /\ api.pc = "returned"
    /\ NextTask(page)
    /\ UNCHANGED clientFrame

\* an await threw: the catch block shows the error toast
SubmitFailed ==
    /\ page.pc \in {"study", "task"} /\ api.pc = "threw"
    /\ page' = [page EXCEPT !.pc = "failed"]
    /\ api' = [pc |-> "idle"]
    /\ UNCHANGED sent
    /\ UNCHANGED clientFrame

\* POST /studies/create: the route gives the study a uuid, create_study
\* inserts it, the answer carries the id
ServeCreateStudy ==
    /\ api.pc = "data" /\ api.url = "/studies/create"
    /\ StudyUuids \ DOMAIN studies # {}
    /\ LET id == CHOOSE u \in StudyUuids \ DOMAIN studies : TRUE
       IN /\ studies' = studies @@ (id :> api.params)
          /\ api' = [api EXCEPT !.pc = "returned", !.body = id]
    /\ UNCHANGED <<tasks, call, participants, clock, responses, aiState, page, sent>>

\* POST /tasks/create reaches the route: create_task(task=payload['task'])
ServeCreateTask ==
    /\ api.pc = "data" /\ api.url = "/tasks/create"
    /\ BeginCreateTask(1, api.params)

\* create_task returned the new id: the route answers 200
RespondCreateTask ==
    /\ api.pc = "data" /\ api.url = "/tasks/create"
    /\ call[1].op = "create_task" /\ call[1].pc = "done" /\ call[1].result = "ok"
    /\ call' = [call EXCEPT ![1] = Idle]
    /\ api' = [api EXCEPT !.pc = "returned", !.body = "created"]
    /\ UNCHANGED <<tasks, participants, clock, responses, aiState, studies, page, sent>>

Init ==
    /\ tasks = <<>>
    /\ call = [w \in Workers |-> Idle]
    /\ participants = <<>>
    /\ clock = 1
    /\ responses = [k \in ParticipantIds \X TaskIds |-> <<>>]
    /\ openai_key \in BOOLEAN
    /\ external_calls = 0
    /\ anthropic_key \in BOOLEAN
    /\ analysis_calls = [t \in Texts \ {""} |-> 0]
    /\ studies = [s \in Studies |-> [status |-> "active"]]
    /\ api = [pc |-> "idle"]
    /\ page = [pc |-> "form"]
    /\ sent = <<>>

\* a deployment with the provider keys of Step 2.4.1 in its .env
InitKeyed == Init /\ openai_key /\ anthropic_key

\* a deployment whose OPENAI_API_KEY may be missing
InitSynthesis == Init /\ anthropic_key

\* requests served one after the other
Next ==
    \/ \E s \in Studies, i \in ExplicitIndexes : AllIdle /\ BeginCreateTask(1, NewTaskAt(s, "discussion", i))
    \/ \E s \in Studies : AllIdle /\ BeginCreateTask(1, NewTask(s, "discussion"))
    \/ \E s \in Studies, ids \in IdLists : AllIdle /\ BeginReorder(1, s, ids)
    \/ CreateTaskRead(1)
    \/ CreateTaskInsert(1)
    \/ ReorderUpdate(1)
    \/ ReorderUpdateRaise(1)
    \/ ReorderCrash(1)
    \/ Return(1)

Spec == InitKeyed /\ [][Next]_vars

\* two editors appending to studies at the same time: create_task without
\* order_index, the requests interleaved at their database calls
NextAppend ==
    \/ \E w \in Workers, s \in Studies : BeginCreateTask(w, NewTask(s, "discussion"))
    \/ \E w \in Workers : CreateTaskRead(w)
    \/ \E w \in Workers : CreateTaskInsert(w)
    \/ \E w \in Workers : Return(w)

SpecAppend == InitKeyed /\ [][NextAppend]_vars

\* the tasks of one study created, reordered and listed, the requests
\* served one after the other
NextSequencer ==
    \/ \E i \in ExplicitIndexes :
          /\ AllIdle /\ Cardinality(DOMAIN tasks) < MaxStudyTasks
          /\ BeginCreateTask(1, NewTaskAt("s1", "discussion", i))
    \/ /\ AllIdle /\ Cardinality(DOMAIN tasks) < MaxStudyTasks
       /\ BeginCreateTask(1, NewTask("s1", "discussion"))
    \/ CreateTaskRead(1)
    \/ CreateTaskInsert(1)
    \/ \E ids \in IdLists : AllIdle /\ BeginReorder(1, "s1", ids)
    \/ ReorderUpdate(1)
    \/ ReorderUpdateRaise(1)
    \/ AllIdle /\ ReadTasks(1, "s1")
    \/ Return(1)

SpecSequencer == InitKeyed /\ [][NextSequencer]_vars

\* a study id no row of the studies table has
UnknownStudy == "s0"

\* the tasks callers of /tasks/create post: any type, a study that exists
\* or one that does not, with or without an order_index
TaskRequests ==
    {NewTask(s, ty) : s \in {"s1", UnknownStudy}, ty \in RequestTypes}
      \cup {NewTaskAt(s, ty, 0) : s \in {"s1", UnknownStudy}, ty \in RequestTypes}

\* what create_task and update_task are given, the requests served one
\* after the other
NextTaskInput ==
    \/ \E t \in TaskRequests :
          /\ AllIdle /\ Cardinality(DOMAIN tasks) < MaxStudyTasks
          /\ BeginCreateTask(1, t)
    \/ CreateTaskRead(1)
    \/ CreateTaskInsert(1)
    \/ CreateTaskInsertRaise(1)
    \/ \E id \in TaskIds, d \in TaskUpdates : AllIdle /\ update_task(1, id, d)
    \/ Return(1)

SpecTaskInput == InitKeyed /\ [][NextTaskInput]_vars

\* participants enrolled one by one and in batches, into a study that
\* exists or one that does not, the requests served one after the other
NextBulk ==
    \/ \E c \in {"", "a@x.io"} : AllIdle /\ create_participant("s1", c, <<>>)
    \/ \E s \in {"", "s1", UnknownStudy}, cs \in ContactLists : AllIdle /\ BeginBulkCreate(1, s, cs)
    \/ BulkCreate(1)
    \/ BulkCreateFail(1)
    \/ Return(1)

SpecBulk == InitKeyed /\ [][NextBulk]_vars

\* calls of accessAPI, one after the other, the API answering as it likes
NextAccessAPI ==
    \/ \E url \in {"/tasks/read", "/tasks/reorder"}, type \in {"GET", "POST", "PUT"} :
          Len(sent) < MaxFetches /\ AccessAPI(url, type, <<>>)
    \/ \E st \in HttpStatuses, tk \in Tokens : TokenResponse(st, tk)
    \/ \E st \in HttpStatuses : DataResponse(st, "ok")
    \/ ApiDone

SpecAccessAPI == InitKeyed /\ [][NextAccessAPI]_vars

\* the create page and the API behind it; a second caller adds a task to
\* another study meanwhile
NextCreatePage ==
    \/ \E form \in Forms : HandleSubmit(form)
    \/ \E st \in HttpStatuses, tk \in Tokens : TokenResponse(st, tk)
    \/ ServeCreateStudy
    \/ AfterCreateStudy
    \/ ServeCreateTask
    \/ CreateTaskRead(1)
    \/ CreateTaskInsert(1)
    \/ RespondCreateTask
    \/ AfterCreateTask
    \/ \E st \in HttpStatuses \cap ErrorStatuses : call[1].op = "idle" /\ DataResponse(st, "")
    \/ SubmitFailed
    \/ db_read_tasks(tasks, "s1") = {} /\ BeginCreateTask(2, NewTask("s1", "camera"))
    \/ CreateTaskRead(2)
    \/ CreateTaskInsert(2)
    \/ Return(2)

SpecCreatePage == InitKeyed /\ [][NextCreatePage]_vars

\* the tasks of two studies created, reordered and deleted, the requests
\* served one after the other
NextFrames ==
    \/ \E s \in Studies, i \in ExplicitIndexes :
          /\ AllIdle /\ Cardinality(DOMAIN tasks) < MaxStudyTasks
          /\ BeginCreateTask(1, NewTaskAt(s, "discussion", i))
    \/ \E s \in Studies :
          /\ AllIdle /\ Cardinality(DOMAIN tasks) < MaxStudyTasks
          /\ NextOrderIndex(tasks, s) <= MaxIndex
          /\ BeginCreateTask(1, NewTask(s, "discussion"))
    \/ CreateTaskRead(1)
    \/ CreateTaskInsert(1)
    \/ \E s \in Studies, ids \in IdLists : AllIdle /\ BeginReorder(1, s, ids)
    \/ ReorderUpdate(1)
    \/ ReorderUpdateRaise(1)
    \/ \E id \in TaskIds : AllIdle /\ delete_task(1, id)
    \/ Return(1)

SpecFrames == InitKeyed /\ [][NextFrames]_vars

\* the life of one study: its status changed, tasks appended, participants
\* enrolled, responses submitted, rows deleted, the requests served one
\* after the other
NextStudies ==
    \/ \E st \in StudyStatuses : AllIdle /\ update_study("s1", [status |-> st])
    \/ AllIdle /\ delete_study("s1")
    \/ /\ AllIdle /\ Cardinality(DOMAIN tasks) < MaxStudyTasks
       /\ NextOrderIndex(tasks, "s1") <= MaxIndex
       /\ BeginCreateTask(1, NewTask("s1", "discussion"))
    \/ CreateTaskRead(1)
    \/ CreateTaskInsert(1)
    \/ CreateTaskInsertRaise(1)
    \/ \E id \in TaskIds : delete_task(1, id)
    \/ /\ AllIdle /\ Cardinality(DOMAIN participants) < MaxRespondents
       /\ create_participant("s1", "a@x.io", <<>>)
    \/ \E id \in ParticipantIds : AllIdle /\ delete_participant(id)
    \/ \E p \in ParticipantIds, t \in TaskIds, d \in Payloads : AllIdle /\ BeginSubmit(1, p, t, d)
    \/ SubmitUpsert(1)
    \/ SubmitStarted(1)
    \/ SubmitCompleted(1)
    \/ Return(1)

SpecStudies == InitKeyed /\ [][NextStudies]_vars

\* participants of one study enrolled and updated through the API
NextParticipants ==
    \/ \E c \in {"", "a@x.io"}, g \in GivenFields : create_participant("s1", c, g)
    \/ \E id \in ParticipantIds, d \in UpdateData : UpdateParticipant(id, d)
    \/ Tick

SpecParticipants == InitKeyed /\ [][NextParticipants]_vars

\* one study: tasks appended, participants enrolled, responses submitted,
\* the requests served one after the other
NextResponses ==
    \/ AllIdle /\ Cardinality(DOMAIN tasks) < MaxStudyTasks /\ BeginCreateTask(1, NewTask("s1", "discussion"))
    \/ CreateTaskRead(1)
    \/ CreateTaskInsert(1)
    \/ /\ AllIdle /\ Cardinality(DOMAIN participants) < MaxRespondents
       /\ create_participant("s1", "a@x.io", <<>>)
    \/ AllIdle /\ Tick
    \/ \E p \in ParticipantIds, t \in TaskIds, d \in Payloads : AllIdle /\ BeginSubmit(1, p, t, d)
    \/ SubmitUpsert(1)
    \/ SubmitStarted(1)
    \/ SubmitCompleted(1)
    \/ Return(1)

SpecResponses == InitKeyed /\ [][NextResponses]_vars

\* a study of one task, with the submissions of several requests interleaved
NextResubmit ==
    \/ AllIdle /\ tasks = <<>> /\ BeginCreateTask(1, NewTask("s1", "discussion"))
    \/ CreateTaskRead(1)
    \/ CreateTaskInsert(1)
    \/ /\ AllIdle /\ Cardinality(DOMAIN participants) < MaxRacers
       /\ create_participant("s1", "a@x.io", <<>>)
    \/ \E w \in Workers, p \in ParticipantIds, t \in TaskIds, d \in Payloads :
          /\ \A v \in Workers : call[v].op \in {"idle", "submit"}
          /\ BeginSubmit(w, p, t, d)
    \/ \E w \in Workers : SubmitUpsert(w)
    \/ \E w \in Workers : SubmitStarted(w)
    \/ \E w \in Workers : SubmitCompleted(w)
    \/ \E w \in Workers : Return(w)

SpecResubmit == InitKeyed /\ [][NextResubmit]_vars

\* synthesis requests served concurrently
NextSynthesis ==
    \/ \E w \in Workers, s \in Studies, d \in StudyData : BeginSynthesize(w, s, d)
    \/ \E w \in Workers : SynthesizeRequest(w)
    \/ \E w \in Workers, r \in Syntheses : SynthesizeResponse(w, r)
    \/ \E w \in Workers, f \in Failures : SynthesizeFail(w, f)
    \/ \E w \in Workers : Return(w)

SpecSynthesis == InitSynthesis /\ [][NextSynthesis]_vars

\* the AI routes, the requests served one after the other
NextAnalysis ==
    \/ \E t \in Texts : AllIdle /\ BeginAnalyze(1, t)
    \/ AnalyzeRequest(1)
    \/ \E r \in Analyses : AnalyzeResponse(1, r)
    \/ \E f \in Failures : AnalyzeFail(1, f)
    \/ \E s \in Studies, d \in StudyData : AllIdle /\ BeginSynthesize(1, s, d)
    \/ SynthesizeRequest(1)
    \/ \E r \in Syntheses : SynthesizeResponse(1, r)
    \/ \E f \in Failures : SynthesizeFail(1, f)
    \/ Return(1)

SpecAnalysis == Init /\ [][NextAnalysis]_vars

\* ------------------------------------------------------- task ordering
StrictlyIncreasing(table, l) ==
    \A i \in 1..(Len(l) - 1) : table[l[i]].order_index < table[l[i + 1]].order_index

UniqueOrderIndex(table) ==
    \A a, b \in DOMAIN table :
        (a # b /\ table[a].study_id = table[b].study_id) => table[a].order_index # table[b].order_index

\* ids lists every task of the study exactly once
IsPermutationOf(ids, table, study) ==
    /\ Len(ids) = Cardinality(db_read_tasks(table, study))
    /\ {ids[i] : i \in 1..Len(ids)} = db_read_tasks(table, study)

\* C1: after any sequence of create_task (with or without order_index) and
\* reorder_tasks requests, read_tasks of a study returns strictly increasing
\* order_index values.
C1_ListStrictlyIncreasing ==
    AllIdle => \A s \in Studies : \A l \in read_tasks(tasks, s) : StrictlyIncreasing(tasks, l)

\* C2: a reorder whose task_ids is not exactly the study's task set fails
\* and leaves the order_index of every task of the study as it was.
C2_BadReorderFailsUnchanged ==
    \A w \in Workers :
        (/\ call[w].op = "reorder" /\ call[w].pc = "done" /\ call[w].result # "crashed"
         /\ ~IsPermutationOf(call[w].task_ids, call[w].before, call[w].study_id))
        => /\ call[w].result = "raised"
           /\ \A id \in db_read_tasks(tasks, call[w].study_id) :
                 tasks[id].order_index = call[w].before[id].order_index

\* C3: while a reorder with a full permutation is in flight, or after it
\* crashed, read_tasks returns the complete old order or the complete new
\* order, and never two tasks with the same order_index.
C3_ReorderAtomic ==
    \A w \in Workers :
        (/\ call[w].op = "reorder" /\ call[w].result \in {"pending", "crashed"}
         /\ IsPermutationOf(call[w].task_ids, call[w].before, call[w].study_id)
         /\ UniqueOrderIndex(call[w].before))
        => \A l \in read_tasks(tasks, call[w].study_id) :
              /\ l \in read_tasks(call[w].before, call[w].study_id) \/ l = call[w].task_ids
              /\ StrictlyIncreasing(tasks, l)

\* C4: concurrent create_task requests without order_index never leave two
\* tasks of one study with the same order_index.
C4_ConcurrentAppendUnique == UniqueOrderIndex(tasks)

\* -------------------------------------------------- participant lifecycle
LegalEdges == {<<"invited", "started">>, <<"started", "completed">>,
               <<"invited", "dropped">>, <<"started", "dropped">>}

\* C5: the status of a participant changes only along invited->started,
\* started->completed, invited->dropped and started->dropped; any other
\* requested change leaves the status as it was.
C5_LegalTransitionsOnly ==
    [][\A p \in DOMAIN participants :
          participants'[p].status # participants[p].status
          => <<participants[p].status, participants'[p].status>> \in LegalEdges]_vars

\* C6: a timestamp that is set is never written again: a repeated
\* transition leaves it unchanged and no operation clears it.
C6_TimestampsWrittenOnce ==
    [][\A p \in DOMAIN participants :
          \A f \in {"invited_at", "started_at", "completed_at"} :
             participants[p][f] # Null => participants'[p][f] = participants[p][f]]_vars

\* ---------------------------------------------------- response ingestion
SubmitCalls == {w \in Workers : call[w].op = "submit" /\ call[w].result \in {"pending", "ok"}}

\* C7: a submission for a pair that already has a response leaves exactly
\* one stored response for the pair, holding the payload just submitted; no
\* pair ever has more than one row.
C7_OneResponsePerPair ==
    /\ \A p \in ParticipantIds, t \in TaskIds : Len(RowsFor(responses, p, t)) <= 1
    /\ \A w \in SubmitCalls :
          call[w].result = "ok"
          => RowsFor(responses, call[w].participant_id, call[w].task_id) = <<call[w].payload>>

\* a second submission for the pair, with another payload, has returned
C7_Resubmitted ==
    \E w \in SubmitCalls :
        /\ call[w].result = "ok" /\ call[w].payload = "b" /\ call[w].prior.rows = <<"a">>

\* C8: two submissions for the same pair that are in flight together
\* leave one row for the pair, never two.
C8_ConcurrentSubmitOneRow ==
    \A w, v \in SubmitCalls :
        (/\ w # v /\ call[w].pc # "upsert" /\ call[v].pc # "upsert"
         /\ call[w].participant_id = call[v].participant_id
         /\ call[w].task_id = call[v].task_id)
        => Len(RowsFor(responses, call[w].participant_id, call[w].task_id)) = 1

\* both requests found no row when they arrived, both have written
C8_RacingSubmits ==
    \E w, v \in SubmitCalls :
        /\ w # v /\ call[w].pc # "upsert" /\ call[v].pc # "upsert"
        /\ call[w].participant_id = call[v].participant_id
        /\ call[w].task_id = call[v].task_id
        /\ call[w].prior.rows = <<>> /\ call[v].prior.rows = <<>>
        /\ call[w].payload # call[v].payload

\* C9: the first submission of an invited participant makes the participant
\* started, the submission that answers the last open task of the study
\* makes the participant completed, and started_at and completed_at are
\* stamped by these transitions and not written again.
C9_SubmissionDrivesLifecycle ==
    /\ \A p \in DOMAIN participants :
          /\ participants[p].status = "invited"
                => participants[p].started_at = Null /\ participants[p].completed_at = Null
          /\ participants[p].status = "started"
                => participants[p].started_at # Null /\ participants[p].completed_at = Null
          /\ participants[p].status = "completed"
                => /\ participants[p].started_at # Null
                   /\ participants[p].started_at <= participants[p].completed_at
    /\ \A w \in SubmitCalls :
          (call[w].pc = "done" /\ call[w].result = "ok")
          => LET row == participants[call[w].participant_id]
                 all == db_read_tasks(tasks, row.study_id)
                          \subseteq Answered(responses, call[w].participant_id)
             IN /\ (call[w].prior.status = "invited" /\ ~all) => row.status = "started"
                /\ (call[w].task_id \notin call[w].prior.answered /\ all)
                      => row.status = "completed" /\ row.completed_at = clock
                /\ call[w].prior.started_at = Null => row.started_at = clock
                /\ call[w].prior.started_at # Null => row.started_at = call[w].prior.started_at

\* the scenario of the specification: T2 answered first, T1 later
C9_StartedThenCompleted ==
    \E w \in SubmitCalls :
        /\ call[w].pc = "done" /\ call[w].result = "ok"
        /\ call[w].task_id = 1 /\ call[w].prior.answered = {2}
        /\ call[w].prior.status = "started"
        /\ participants[call[w].participant_id].status = "completed"
        /\ participants[call[w].participant_id].started_at
              < participants[call[w].participant_id].completed_at

\* ------------------------------------------------------------ synthesis
\* C10: synthesis requests for one study that are in flight together cause
\* one call to the provider, and all of them return the same document.
C10_SingleFlight ==
    \A w, v \in Workers :
        (/\ w # v /\ call[w].op = "synthesize" /\ call[v].op = "synthesize"
         /\ call[w].result = "ok" /\ call[v].result = "ok"
         /\ w \in call[v].overlap)
        => /\ ~(call[w].issued /\ call[v].issued)
           /\ call[w].value = call[v].value

\* ------------------------------------------------------------- analysis
AiCalls == {w \in Workers : call[w].op \in {"analyze", "synthesize"}}

\* the provider calls one request has made
Attempts(w) == IF call[w].issued THEN 1 ELSE 0

\* C11: over any sequence of analyze requests the provider is called at
\* most once for each distinct text; a repeated text is served without a
\* further call.
C11_OneInferencePerFingerprint ==
    \A t \in Texts \ {""} : analysis_calls[t] <= 1

\* C12: a request that ends in a failure after a transient provider error
\* (timeout, 5xx) has made 3 attempts; one failed attempt alone never
\* surfaces.
C12_TransientFailureRetried ==
    \A w \in AiCalls :
        (call[w].pc = "done" /\ call[w].result = "raised" /\ call[w].failure \in TransientFailures)
        => Attempts(w) = 3

\* C13: without the API key a request fails before any provider call, and
\* an authentication failure of the provider surfaces after the one call
\* that met it.
C13_CredentialFailureImmediate ==
    /\ ~openai_key => external_calls = 0
    /\ ~anthropic_key => \A t \in Texts \ {""} : analysis_calls[t] = 0
    /\ \A w \in AiCalls :
          /\ call[w].failure = "NotConfigured"
                => call[w].pc = "done" /\ call[w].result = "raised" /\ Attempts(w) = 0
          /\ call[w].failure = "AuthError"
                => call[w].pc = "done" /\ call[w].result = "raised" /\ Attempts(w) = 1
          /\ (call[w].op = "analyze" /\ call[w].text # "" /\ ~anthropic_key)
                => call[w].failure = "NotConfigured"
          /\ (call[w].op = "synthesize" /\ call[w].failure # "Required" /\ ~openai_key)
                => call[w].failure = "NotConfigured"

\* an analysis was asked for without the Anthropic key, and has failed
C13_AnalyzeWithoutKey ==
    \E w \in AiCalls :
        /\ call[w].op = "analyze" /\ call[w].text = "t1" /\ ~anthropic_key
        /\ call[w].pc = "done" /\ call[w].result = "raised"

\* C14: a synthesis of a study with no completed participant makes no
\* provider call and does not return a synthesis.
C14_NoDataNoCall ==
    \A w \in AiCalls :
        (call[w].op = "synthesize" /\ call[w].completed = 0)
        => ~call[w].issued /\ call[w].result # "ok"

\* ------------------------------------------------------- task sequencer
\* C15: a reorder whose task_ids list every task of the study once gives the
\* k-th id of the list order_index k, and read_tasks then returns the tasks
\* in exactly the order of the list.
C15_ReorderAppliesPermutation ==
    \A w \in Workers :
        (/\ call[w].op = "reorder" /\ call[w].pc = "done" /\ call[w].result = "ok"
         /\ IsPermutationOf(call[w].task_ids, call[w].before, call[w].study_id))
        => /\ \A k \in 1..Len(call[w].task_ids) : tasks[call[w].task_ids[k]].order_index = k
           /\ read_tasks(tasks, call[w].study_id) = {call[w].task_ids}

\* tasks 1 and 2 were in this order, reorder([2, 1]) has returned
C15_Swapped ==
    \E w \in Workers :
        /\ call[w].op = "reorder" /\ call[w].pc = "done" /\ call[w].result = "ok"
        /\ call[w].task_ids = <<2, 1>>
        /\ DOMAIN call[w].before = {1, 2}
        /\ call[w].before[1].order_index < call[w].before[2].order_index

C17_ListSortedByOrderIndex ==
    \A w \in Workers :
        call[w].op = "read_tasks"
        => LET l == call[w].rows
           IN /\ {l[i] : i \in 1..Len(l)} = db_read_tasks(tasks, call[w].study_id)
              /\ Len(l) = Cardinality(db_read_tasks(tasks, call[w].study_id))
              /\ \A i \in 1..Len(l) : \A j \in 1..Len(l) :
                    i < j => tasks[l[i]].order_index <= tasks[l[j]].order_index

\* the list has come back with the task created last in front
C17_ListedOutOfIdOrder ==
    \E w \in Workers :
        /\ call[w].op = "read_tasks" /\ Len(call[w].rows) = 2
        /\ call[w].rows[1] > call[w].rows[2]
        /\ tasks[call[w].rows[1]].order_index < tasks[call[w].rows[2]].order_index

\* the enum of the type column
TaskTypeEnum == {"camera", "discussion", "gallery", "collage", "classification", "fill_blanks"}

\* C18: every stored task has a type of the enum, and a create_task or
\* update_task given a type outside it is rejected and leaves the tasks
\* table as it was.
C18_TypeInEnum ==
    [][/\ \A id \in DOMAIN tasks' : tasks'[id].type \in TaskTypeEnum
       /\ \A w \in Workers :
             (/\ call[w].op = "idle"
              /\ \/ call'[w].op = "create_task" /\ call'[w].type \notin TaskTypeEnum
                 \/ /\ call'[w].op = "update_task" /\ "type" \in DOMAIN call'[w].data
                    /\ call'[w].data.type \notin TaskTypeEnum)
             => call'[w].pc = "done" /\ call'[w].result = "raised" /\ tasks' = tasks]_vars

\* an update to a type outside the enum was refused for a stored task
C18_UnknownTypeRefused ==
    \E w \in Workers :
        /\ call[w].op = "update_task" /\ call[w].data = [type |-> "video"]
        /\ call[w].task_id \in DOMAIN tasks /\ call[w].result = "raised"

C20_EnrolledAsInvited ==
    [][\A p \in DOMAIN participants' \ DOMAIN participants :
          /\ participants'[p].contact # ""
          /\ participants'[p].status = "invited"
          /\ participants'[p].invited_at = clock]_vars

\* -------------------------------------------------------- bulk enrolment
BulkCalls == {w \in Workers : call[w].op = "bulk_create"}

\* the contacts of a batch the database takes
Creatable(w) ==
    {i \in 1..Len(call[w].contacts) :
        call[w].contacts[i] # None /\ call[w].study_id \in DOMAIN studies}

\* C21: a batch with a study_id and at least one contact always returns;
\* every contact is attempted whether or not an earlier one failed, and
\* created_count is the number of participants created, total_requested the
\* number of contacts passed.
C21_BulkBestEffort ==
    \A w \in BulkCalls :
        /\ (call[w].study_id # "" /\ call[w].contacts # <<>>) => call[w].result # "raised"
        /\ (call[w].pc = "done" /\ call[w].result = "ok")
              => /\ call[w].k = Len(call[w].contacts)
                 /\ call[w].total_requested = Len(call[w].contacts)
                 /\ call[w].created_count = Cardinality(Creatable(w))
                 /\ call[w].created_count
                       = Cardinality(DOMAIN participants \ DOMAIN call[w].before)
                 /\ call[w].created_count <= call[w].total_requested

\* the first contact of a batch failed, the second was created
C21_FailedThenCreated ==
    \E w \in BulkCalls :
        /\ call[w].pc = "done" /\ call[w].result = "ok"
        /\ call[w].contacts = <<None, "a@x.io">> /\ call[w].created_count = 1

\* C22: a batch raises, creating no participant, exactly when its contacts
\* list is empty or its study does not exist; a batch for a missing study
\* does not return with created_count 0.
C22_BulkFailsAsWhole ==
    \A w \in BulkCalls :
        call[w].pc = "done"
        => /\ call[w].result = "raised"
                 <=> (call[w].contacts = <<>> \/ call[w].study_id \notin DOMAIN studies)
           /\ call[w].result = "raised" => participants = call[w].before

\* C29: no stored participant has an empty contact, whether it was created
\* by create_participant or by bulk_create_participants.
C29_NoEmptyContact ==
    \A p \in DOMAIN participants : participants[p].contact # ""

\* ------------------------------------------------- studies and deletes
\* C23: a submission for a participant of a study that is not active is
\* answered InvalidState, and leaves the responses and the participants as
\* they were; a submission so answered does nothing further.
C23_InactiveStudyRejects ==
    [][\A w \in Workers :
          /\ (/\ call[w].op = "idle" /\ call'[w].op = "submit"
              /\ call'[w].result # "NotFound"
              /\ studies[participants[call'[w].participant_id].study_id].status # "active")
             => /\ call'[w].result = "InvalidState" /\ call'[w].pc = "done"
                /\ responses' = responses /\ participants' = participants
          /\ (call[w].op = "submit" /\ call[w].result = "InvalidState" /\ call'[w] # call[w])
             => call'[w].op = "idle" /\ responses' = responses /\ participants' = participants]_vars

\* a participant who had started answering was refused once the study had
\* been archived
C23_RefusedAfterArchive ==
    \E w \in Workers :
        /\ call[w].op = "submit" /\ call[w].result = "InvalidState"
        /\ participants[call[w].participant_id].status = "started"
        /\ studies[participants[call[w].participant_id].study_id].status = "archived"

\* C24: every task and every participant references a study that exists,
\* and every response a participant and a task that exist.
C24_ReferencesExist ==
    /\ \A id \in DOMAIN tasks : tasks[id].study_id \in DOMAIN studies
    /\ \A p \in DOMAIN participants : participants[p].study_id \in DOMAIN studies
    /\ \A p \in ParticipantIds, t \in TaskIds :
          RowsFor(responses, p, t) # <<>> => p \in DOMAIN participants /\ t \in DOMAIN tasks

\* a task that had an answer was deleted: the answer is gone, the
\* participant is still there
C24_AnsweredTaskDeleted ==
    \E w \in Workers :
        /\ call[w].op = "delete_task" /\ call[w].result = "ok"
        /\ \E p \in call[w].answers :
              p \in DOMAIN participants /\ RowsFor(responses, p, call[w].task_id) = <<>>

\* ---------------------------------------------------------- frame effects
\* C27: a reorder of study S leaves every task of another study with the
\* order_index it had, also when task_ids names such a task.
C27_ReorderKeepsOtherStudies ==
    \A w \in Workers :
        call[w].op = "reorder"
        => \A id \in DOMAIN call[w].before :
              call[w].before[id].study_id # call[w].study_id
              => id \in DOMAIN tasks /\ tasks[id] = call[w].before[id]

\* the reorder came to an id of a task of the other study, and stopped
C27_ForeignTaskNamed ==
    \E w \in Workers :
        /\ call[w].op = "reorder" /\ call[w].pc = "done" /\ call[w].result = "raised"
        /\ call[w].task_ids # <<>>
        /\ call[w].task_ids[call[w].k] \in DOMAIN call[w].before
        /\ call[w].before[call[w].task_ids[call[w].k]].study_id # call[w].study_id

C30_TokenThenOneRequest ==
    /\ \A i \in 1..Len(sent) :
          sent[i].url # "/token"
          => i > 1 /\ sent[i - 1].url = "/token" /\ sent[i].token # ""
    /\ api.pc = "token" => api.fetches = 1 /\ sent[Len(sent)] = Fetch("/token", "POST", "", <<>>)
    /\ (api.pc # "idle" /\ api.pc # "token")
       => IF api.token_status \in ErrorStatuses \/ api.token = ""
          THEN /\ api.pc = "threw" /\ api.fetches = 1
               /\ sent[Len(sent)].url = "/token"
          ELSE /\ api.fetches = 2
               /\ sent[Len(sent) - 1].url = "/token"
               /\ sent[Len(sent)] = Fetch(api.url, IF api.type = "GET" THEN "GET" ELSE "POST",
                                          api.token, api.params)

\* /token answered 200 with a body that has no access_token
C30_NoTokenInBody ==
    api.pc = "threw" /\ api.token_status = 200 /\ api.token = "" /\ api.type = "GET"

\* ------------------------------------------------------------ handleSubmit
\* the data requests the browser has issued, oldest first
DataRequests == SelectSeq(sent, LAMBDA f : f.url # "/token")

====
